---------------------------- MODULE Spec2Model ----------------------------
(***************************************************************************)
(* A model of ft-wallet: the Ledger Engine (WalletService), the replicated *)
(* writer on the primary (PrimaryWalletService), the backup RPC server     *)
(* (WalletBackupServicer) and the failover monitor (FailoverManager).      *)
(*                                                                         *)
(* Each replica owns an in-memory wallet store and transaction log and     *)
(* their on-disk copies.  An engine call is a frame that walks through the *)
(* statements of deposit / withdraw / get_balance that touch the disk, so  *)
(* that a crash or a failed write can fall between any two of them.        *)
(*                                                                         *)
(* Amounts and balances are Python floats in the source; the model uses    *)
(* small integers (whole currency units), on which float arithmetic is     *)
(* exact.  Python None is the empty tuple, a present value v is <<v>>.     *)
(***************************************************************************)
EXTENDS Integers, Sequences, FiniteSets, TLC

(* ------------------------------ bounds -------------------------------- *)

\* Largest amount a caller submits (callers also submit 0 and -1).
MaxAmount == 2

\* No deposit is submitted that would take a balance above this.
MaxBalance == 3

\* Number of distinct transaction ids the callers use.
NumTxnIds == 2

\* Number of distinct account ids the callers use.
NumAccounts == 2

Replicas == {"primary", "backup"}

AccountIds == 1..NumAccounts

TxnIds == 1..NumTxnIds

Amounts == {-1} \cup (0..MaxAmount)

\* The outcome of one write to disk: it completes, or it raises OSError.
DiskOutcomes == {"ok", "fail"}

(* ------------------------- Python values ------------------------------ *)

None == << >>

Some(v) == <<v>>

\* d[k] = v on a dict d.
Put(d, k, v) == [j \in (DOMAIN d) \cup {k} |-> IF j = k THEN v ELSE d[j]]

EmptyDict == [j \in {} |-> None]

\* f"{amount}" of a number.
Fmt(x) == ToString(x)

\* A (success, message, new_balance) triple as a call hands it back;
\* raised = TRUE is an exception leaving the call instead of a triple.
Triple(s, m, b) == [raised |-> FALSE, success |-> s, message |-> m, new_balance |-> b]

Raised == [raised |-> TRUE, success |-> None, message |-> None, new_balance |-> None]

\* The worker threads of a replica's RPC server that run engine calls.  The
\* sequential specifications use worker 1 alone.
Workers == {1, 2}

NoFrame == [pc |-> "idle"]

VARIABLES
    wallets,        \* [replica -> dict account_id -> balance]   self.wallets
    transactions,   \* [replica -> dict transaction_id -> record] self.transactions
    diskWallets,    \* [replica -> dict]  the replica's *_wallets.json
    diskTxns,       \* [replica -> dict]  the replica's *_transactions.json
    walletsTorn,    \* [replica -> BOOLEAN]  *_wallets.json holds a partial write
    up,             \* [replica -> BOOLEAN]  the replica's process is running
    frame,          \* [replica -> [worker -> the engine call it runs, or NoFrame]]
    failover_mode,  \* FailoverManager.failover_mode
    is_primary_alive, \* FailoverManager.is_primary_alive
    request,        \* the Replicated Writer call in progress, or NoFrame
    issued,         \* [transaction_id -> the operation the clients issued it for]
    hist            \* history of calls and returns, read by the properties only

vars == <<wallets, transactions, diskWallets, diskTxns, walletsTorn, up, frame,
          failover_mode, is_primary_alive, request, issued, hist>>

(* --------------------------- initial state ---------------------------- *)

\* Fresh replicas: no files on disk, so load_wallets and load_transactions
\* leave both dicts empty; FailoverManager.__init__ sets the two flags.
\* firstRet[t]: the first triple a call with transaction id t returned.
\* applied[t]: how many times the balance change of t is contained in the
\* in-memory wallet store; persisted[t]: the same for the wallet file.
\* crashedMid[t]: a crash cut a call with t between its PENDING write and its
\* COMMITTED write.  recovered: the replica's last start ran the recovery.
\* inFailover[t]: the call that firstRet[t] is of came from a writer call that
\* read failover_mode as true.
NoHistory ==
    [firstRet   |-> [t \in TxnIds |-> None],
     applied    |-> [t \in TxnIds |-> 0],
     persisted  |-> [t \in TxnIds |-> 0],
     crashedMid |-> [t \in TxnIds |-> FALSE],
     recovered  |-> FALSE,
     inFailover |-> [t \in TxnIds |-> FALSE]]

Init ==
    /\ wallets = [e \in Replicas |-> EmptyDict]
    /\ transactions = [e \in Replicas |-> EmptyDict]
    /\ diskWallets = [e \in Replicas |-> EmptyDict]
    /\ diskTxns = [e \in Replicas |-> EmptyDict]
    /\ walletsTorn = [e \in Replicas |-> FALSE]
    /\ up = [e \in Replicas |-> TRUE]
    /\ frame = [e \in Replicas |-> [k \in Workers |-> NoFrame]]
    /\ failover_mode = FALSE
    /\ is_primary_alive = TRUE
    /\ request = NoFrame
    /\ hist = [e \in Replicas |-> NoHistory]
    /\ issued = [t \in TxnIds |-> None]

(* --------------------- WalletService: the records --------------------- *)

\* A duplicate check that never finds the transaction id.
NeverDuplicate(txns, t) == FALSE

\* A duplicate check that takes only a transaction that succeeded for done.
DuplicateIfSucceeded(txns, t) == t \in DOMAIN txns /\ txns[t].success = Some(TRUE)

\* _is_duplicate_transaction: key presence only.
IsDuplicateTransaction(txns, t) == t \in DOMAIN txns

\* "if amount <= 0" of deposit and withdraw.
AmountRejected(x) == x <= 0

\* A balance check that lets every withdrawal through.
BalanceNeverTooLow(bal, x) == FALSE

\* "if self.wallets[account_id] < amount" of withdraw.
BalanceTooLow(bal, x) == bal < x

\* A step order that commits the log without saving the wallet store.
StepAfterWithoutSave(pc) ==
    CASE pc = "wal" -> "exec"
      [] pc = "exec" -> "commit"
      [] pc = "save" -> "commit"

\* The order of the steps of the try of deposit and withdraw: the WAL
\* write, the balance change, save_wallets, the commit of the log.
StepAfter(pc) ==
    CASE pc = "wal" -> "exec"
      [] pc = "exec" -> "save"
      [] pc = "save" -> "commit"

\* _get_cached_result: the three result fields of the record, whatever its
\* status.
GetCachedResult(txns, t) ==
    Triple(txns[t].success, txns[t].message, txns[t].new_balance)

\* The in-memory part of _record_transaction_wal.
RecordTransactionWal(txns, t, op, a, x) ==
    Put(txns, t, [status |-> "PENDING", operation |-> op, account_id |-> a,
                  amount |-> x, success |-> None, message |-> None,
                  new_balance |-> None])

\* The in-memory part of _commit_transaction: update the record in place,
\* or create one that holds the status and the result alone.
CommitTransaction(txns, t, res) ==
    IF t \in DOMAIN txns
    THEN [txns EXCEPT ![t].status = "COMMITTED",
                      ![t].success = res.success,
                      ![t].message = res.message,
                      ![t].new_balance = res.new_balance]
    ELSE Put(txns, t, [status |-> "COMMITTED", success |-> res.success,
                       message |-> res.message, new_balance |-> res.new_balance])

\* The in-memory part of _rollback_transaction: the status changes, the
\* result fields stay as they are.
RollbackTransaction(txns, t) ==
    IF t \in DOMAIN txns THEN [txns EXCEPT ![t].status = "ROLLED_BACK"] ELSE txns

\* The triple of the except branch of deposit and withdraw.
FailedResult(op) ==
    Triple(Some(FALSE),
           Some((IF op = "DEPOSIT" THEN "Deposit" ELSE "Withdraw") \o " failed: OSError"),
           Some(0))

AmountMustBePositive == Triple(Some(FALSE), Some("Amount must be positive"), Some(0))

\* An insufficient-balance triple that reports 0.0 like the other failures.
InsufficientBalanceZero(bal) == Triple(Some(FALSE), Some("Insufficient balance"), Some(0))

InsufficientBalance(bal) == Triple(Some(FALSE), Some("Insufficient balance"), Some(bal))

SuccessResult(op, x, bal) ==
    Triple(Some(TRUE),
           Some((IF op = "DEPOSIT" THEN "Deposited " ELSE "Withdrew ") \o Fmt(x)),
           Some(bal))

\* The balance a replica's wallet store gives an account: get_balance
\* answers 0 for an account it does not hold yet.
Balance(w, a) == IF a \in DOMAIN w THEN w[a] ELSE 0

(* ---------------------- WalletService: the calls ---------------------- *)

\* before: the wallet store as the call found it, read by the properties only.
NewFrame(op, a, x, t, w) ==
    [pc |-> "entry", op |-> op, account_id |-> a, amount |-> x,
     transaction_id |-> t, result |-> None, before |-> w]

Return(fr, res) == [fr EXCEPT !.pc = "done", !.result = Some(res)]

At(e, k, pc) == up[e] /\ frame[e][k].pc = pc

\* save_transactions: the log file is replaced as a whole (temp file, then
\* rename), or the write raises and the file stays as it was.
SaveTransactions(e, txns, f) ==
    diskTxns' = IF f = "ok" THEN [diskTxns EXCEPT ![e] = txns] ELSE diskTxns

\* save_wallets: the wallet file is rewritten in place, or the write raises
\* (open fails) and the file stays as it was.
SaveWallets(e, w, f) ==
    /\ diskWallets' = IF f = "ok" THEN [diskWallets EXCEPT ![e] = w] ELSE diskWallets
    /\ hist' = IF f = "ok" THEN [hist EXCEPT ![e].persisted = hist[e].applied] ELSE hist

\* The except branch of deposit and withdraw, entered with the in-memory log
\* txns: _rollback_transaction marks the record and saves the log (g is the
\* outcome of that save; when it raises too, the exception leaves the call).
ExceptBranch(e, k, txns, g) ==
    LET fr == frame[e][k]
        rb == RollbackTransaction(txns, fr.transaction_id)
    IN  /\ transactions' = [transactions EXCEPT ![e] = rb]
        /\ SaveTransactions(e, rb, g)
        /\ frame' = [frame EXCEPT ![e][k] =
                        Return(fr, IF g = "ok" THEN FailedResult(fr.op) ELSE Raised)]

\* deposit, up to the try: the duplicate check and the amount check.
DepositEntry(e, k) ==
    LET fr == frame[e][k] IN
    /\ At(e, k, "entry") /\ fr.op = "DEPOSIT"
    /\ frame' = [frame EXCEPT ![e][k] =
          IF IsDuplicateTransaction(transactions[e], fr.transaction_id)
          THEN Return(fr, GetCachedResult(transactions[e], fr.transaction_id))
          ELSE IF AmountRejected(fr.amount)
          THEN [fr EXCEPT !.pc = "reject", !.result = Some(AmountMustBePositive)]
          ELSE [fr EXCEPT !.pc = "wal"]]
    /\ UNCHANGED <<wallets, transactions, diskWallets, diskTxns, walletsTorn, up,
                   failover_mode, is_primary_alive, request, issued, hist>>

\* withdraw, up to the WAL write: the duplicate check, the amount check, and
\* in the try the creation of an unknown account and the balance check.
WithdrawEntry(e, k) ==
    LET fr == frame[e][k]
        a == fr.account_id
        dup == IsDuplicateTransaction(transactions[e], fr.transaction_id)
        w == IF a \in DOMAIN wallets[e] THEN wallets[e] ELSE Put(wallets[e], a, 0)
    IN
    /\ At(e, k, "entry") /\ fr.op = "WITHDRAW"
    /\ frame' = [frame EXCEPT ![e][k] =
          IF dup
          THEN Return(fr, GetCachedResult(transactions[e], fr.transaction_id))
          ELSE IF AmountRejected(fr.amount)
          THEN [fr EXCEPT !.pc = "reject", !.result = Some(AmountMustBePositive)]
          ELSE IF BalanceTooLow(w[a], fr.amount)
          THEN [fr EXCEPT !.pc = "insufficient", !.result = Some(InsufficientBalance(w[a]))]
          ELSE [fr EXCEPT !.pc = "wal"]]
    /\ wallets' = IF dup \/ AmountRejected(fr.amount) THEN wallets
                  ELSE [wallets EXCEPT ![e] = w]
    /\ UNCHANGED <<transactions, diskWallets, diskTxns, walletsTorn, up,
                   failover_mode, is_primary_alive, request, issued, hist>>

\* The rejection of a non-positive amount: _commit_transaction outside the
\* try, so a failed save of the log leaves the call as an exception.
RejectAmount(e, k, f) ==
    LET fr == frame[e][k]
        res == fr.result[1]
        txns == CommitTransaction(transactions[e], fr.transaction_id, res)
    IN
    /\ At(e, k, "reject")
    /\ transactions' = [transactions EXCEPT ![e] = txns]
    /\ SaveTransactions(e, txns, f)
    /\ frame' = [frame EXCEPT ![e][k] = Return(fr, IF f = "ok" THEN res ELSE Raised)]
    /\ UNCHANGED <<wallets, diskWallets, walletsTorn, up,
                   failover_mode, is_primary_alive, request, issued, hist>>

\* The rejection for insufficient balance: _commit_transaction inside the try.
RejectInsufficient(e, k, f, g) ==
    LET fr == frame[e][k]
        res == fr.result[1]
        txns == CommitTransaction(transactions[e], fr.transaction_id, res)
    IN
    /\ At(e, k, "insufficient")
    /\ IF f = "ok"
       THEN /\ transactions' = [transactions EXCEPT ![e] = txns]
            /\ SaveTransactions(e, txns, "ok")
            /\ frame' = [frame EXCEPT ![e][k] = Return(fr, res)]
       ELSE ExceptBranch(e, k, txns, g)
    /\ UNCHANGED <<wallets, diskWallets, walletsTorn, up,
                   failover_mode, is_primary_alive, request, issued, hist>>

\* Step 1 of deposit (step 2 of withdraw): _record_transaction_wal.
WriteAheadLog(e, k, f, g) ==
    LET fr == frame[e][k]
        txns == RecordTransactionWal(transactions[e], fr.transaction_id, fr.op,
                                     fr.account_id, fr.amount)
    IN
    /\ At(e, k, "wal")
    /\ IF f = "ok"
       THEN /\ transactions' = [transactions EXCEPT ![e] = txns]
            /\ SaveTransactions(e, txns, "ok")
            /\ frame' = [frame EXCEPT ![e][k].pc = StepAfter("wal")]
       ELSE ExceptBranch(e, k, txns, g)
    /\ UNCHANGED <<wallets, diskWallets, walletsTorn, up,
                   failover_mode, is_primary_alive, request, issued, hist>>

\* Step 2 of deposit (step 3 of withdraw): the balance changes in memory.
Execute(e, k) ==
    LET fr == frame[e][k]
        a == fr.account_id
        delta == IF fr.op = "DEPOSIT" THEN fr.amount ELSE 0 - fr.amount
    IN
    /\ At(e, k, "exec")
    /\ wallets' = [wallets EXCEPT ![e] = Put(@, a, Balance(@, a) + delta)]
    /\ frame' = [frame EXCEPT ![e][k].pc = StepAfter("exec")]
    /\ hist' = [hist EXCEPT ![e].applied[fr.transaction_id] = IF @ < 2 THEN @ + 1 ELSE @]
    /\ UNCHANGED <<transactions, diskWallets, diskTxns, walletsTorn, up,
                   failover_mode, is_primary_alive, request, issued>>

\* Step 3 of deposit (step 4 of withdraw): save_wallets.
PersistWallets(e, k, f, g) ==
    LET fr == frame[e][k] IN
    /\ At(e, k, "save")
    /\ SaveWallets(e, wallets[e], f)
    /\ IF f = "ok"
       THEN /\ frame' = [frame EXCEPT ![e][k].pc = StepAfter("save")]
            /\ UNCHANGED <<transactions, diskTxns>>
       ELSE ExceptBranch(e, k, transactions[e], g)
    /\ UNCHANGED <<wallets, walletsTorn, up, failover_mode, is_primary_alive, request,
                   issued>>

\* Step 4 of deposit (step 5 of withdraw): the result is read off the
\* in-memory balance and _commit_transaction writes it to the log.
Commit(e, k, f, g) ==
    LET fr == frame[e][k]
        res == SuccessResult(fr.op, fr.amount, wallets[e][fr.account_id])
        txns == CommitTransaction(transactions[e], fr.transaction_id, res)
    IN
    /\ At(e, k, "commit")
    /\ IF f = "ok"
       THEN /\ transactions' = [transactions EXCEPT ![e] = txns]
            /\ SaveTransactions(e, txns, "ok")
            /\ frame' = [frame EXCEPT ![e][k] = Return(fr, res)]
       ELSE ExceptBranch(e, k, txns, g)
    /\ UNCHANGED <<wallets, diskWallets, walletsTorn, up,
                   failover_mode, is_primary_alive, request, issued, hist>>

\* A get_balance that reads 0 for an account the store does not hold and
\* creates nothing.
GetBalanceNoCreate(e, k, f) ==
    LET fr == frame[e][k]
    IN
    /\ At(e, k, "entry") /\ fr.op = "GET_BALANCE"
    /\ f = "ok"
    /\ frame' = [frame EXCEPT ![e][k] =
          Return(fr, Triple(Some(TRUE), Some("Balance retrieved"),
                            Some(Balance(wallets[e], fr.account_id))))]
    /\ UNCHANGED <<wallets, diskWallets, hist, transactions, diskTxns, walletsTorn, up,
                   failover_mode, is_primary_alive, request, issued>>

\* get_balance: an unknown account is created at zero and the wallet store
\* saved (a failed save leaves the call as an exception).
GetBalance(e, k, f) ==
    LET fr == frame[e][k]
        a == fr.account_id
        known == a \in DOMAIN wallets[e]
        w == IF known THEN wallets[e] ELSE Put(wallets[e], a, 0)
    IN
    /\ At(e, k, "entry") /\ fr.op = "GET_BALANCE"
    /\ known => f = "ok"
    /\ wallets' = [wallets EXCEPT ![e] = w]
    /\ IF known THEN UNCHANGED <<diskWallets, hist>> ELSE SaveWallets(e, w, f)
    /\ frame' = [frame EXCEPT ![e][k] =
          Return(fr, IF f = "ok"
                     THEN Triple(Some(TRUE), Some("Balance retrieved"), Some(w[a]))
                     ELSE Raised)]
    /\ UNCHANGED <<transactions, diskTxns, walletsTorn, up, failover_mode,
                   is_primary_alive, request, issued>>

(* ------------------ crash, restart and recovery ----------------------- *)

\* The calls a crash of the replica cuts between the PENDING write and the
\* COMMITTED write.
MidMutation(e) ==
    {frame[e][k].transaction_id : k \in {j \in Workers : frame[e][j].pc \in {"exec", "save", "commit"}}}

\* A worker is inside save_wallets' write: at step 3 of deposit (4 of
\* withdraw), or in get_balance for an account the store does not hold.
InSaveWallets(e) ==
    \E k \in Workers :
        \/ frame[e][k].pc = "save"
        \/ /\ frame[e][k].pc = "entry" /\ frame[e][k].op = "GET_BALANCE"
           /\ frame[e][k].account_id \notin DOMAIN wallets[e]

\* The replica's process dies: its memory and the calls it runs are gone,
\* its files stay.  torn: it dies inside save_wallets' write.
CrashReplica(e, torn) ==
    /\ up[e]
    /\ torn => InSaveWallets(e)
    /\ up' = [up EXCEPT ![e] = FALSE]
    /\ wallets' = [wallets EXCEPT ![e] = EmptyDict]
    /\ transactions' = [transactions EXCEPT ![e] = EmptyDict]
    /\ frame' = [frame EXCEPT ![e] = [k \in Workers |-> NoFrame]]
    /\ walletsTorn' = [walletsTorn EXCEPT ![e] = @ \/ torn]
    /\ hist' = [hist EXCEPT ![e].crashedMid = [t \in TxnIds |-> @[t] \/ t \in MidMutation(e)],
                            ![e].applied = [t \in TxnIds |-> 0]]
    /\ UNCHANGED <<diskWallets, diskTxns>>

\* recover_pending_transactions on the log txns: every PENDING record is
\* rolled back.
RecoverPendingTransactions(txns) ==
    [t \in DOMAIN txns |->
        IF txns[t].status = "PENDING" THEN RollbackTransaction(txns, t)[t] ELSE txns[t]]

\* WalletService.__init__: load_wallets and load_transactions.  A wallet
\* file cut short does not parse, and the process does not come up.
StartReplica(e) ==
    /\ ~up[e] /\ ~walletsTorn[e]
    /\ up' = [up EXCEPT ![e] = TRUE]
    /\ wallets' = [wallets EXCEPT ![e] = diskWallets[e]]
    /\ transactions' = [transactions EXCEPT ![e] = diskTxns[e]]
    /\ hist' = [hist EXCEPT ![e].recovered = FALSE, ![e].applied = hist[e].persisted]
    /\ UNCHANGED <<diskWallets, diskTxns, walletsTorn, frame>>

\* start_grpc_server: WalletService.__init__, then
\* recover_pending_transactions, whose rollbacks save the log.
StartReplicaRecover(e) ==
    /\ ~up[e] /\ ~walletsTorn[e]
    /\ up' = [up EXCEPT ![e] = TRUE]
    /\ wallets' = [wallets EXCEPT ![e] = diskWallets[e]]
    /\ transactions' = [transactions EXCEPT ![e] = RecoverPendingTransactions(diskTxns[e])]
    /\ diskTxns' = [diskTxns EXCEPT ![e] = RecoverPendingTransactions(diskTxns[e])]
    /\ hist' = [hist EXCEPT ![e].recovered = TRUE, ![e].applied = hist[e].persisted]
    /\ UNCHANGED <<diskWallets, walletsTorn, frame>>

(* ---------------- the Ledger Engine served on its own ------------------ *)

\* The engine of the standalone specification: the WalletService that
\* PrimaryWalletServicer forwards every RPC to, on the primary's files.
Lone == "primary"

\* The clients: a transaction id names one operation on one account, and a
\* retry sends the same request again (example_client: the payload is built
\* once, before the retry loop).
Issue(op, a, x, t) ==
    /\ issued[t] \in {None, Some(<<op, a, x>>)}
    /\ issued' = [issued EXCEPT ![t] = Some(<<op, a, x>>)]

\* An RPC arrives: PrimaryWalletServicer.deposit / withdraw calls the engine
\* with the request's fields.
Call(e, k, op, a, x, t) ==
    /\ up[e] /\ frame[e][k] = NoFrame
    /\ op = "DEPOSIT" => Balance(wallets[e], a) + x <= MaxBalance
    /\ Issue(op, a, x, t)
    /\ frame' = [frame EXCEPT ![e][k] = NewFrame(op, a, x, t, wallets[e])]
    /\ UNCHANGED <<wallets, transactions, diskWallets, diskTxns, walletsTorn, up,
                   failover_mode, is_primary_alive, request, hist>>

\* PrimaryWalletServicer.getBalance calls the engine.
CallGetBalance(e, k, a) ==
    /\ up[e] /\ frame[e][k] = NoFrame
    /\ frame' = [frame EXCEPT ![e][k] = NewFrame("GET_BALANCE", a, 0, 0, wallets[e])]
    /\ UNCHANGED <<wallets, transactions, diskWallets, diskTxns, walletsTorn, up,
                   failover_mode, is_primary_alive, request, issued, hist>>

\* What a finished call adds to the history of its replica: the first triple
\* returned under its transaction id.
Returned(h, fr) ==
    LET t == fr.transaction_id IN
    IF t \in TxnIds /\ h.firstRet[t] = None /\ ~fr.result[1].raised
    THEN [h EXCEPT !.firstRet[t] = fr.result] ELSE h

\* The engine's return reaches the servicer, which answers the RPC.
Respond(e, k) ==
    /\ At(e, k, "done")
    /\ frame' = [frame EXCEPT ![e][k] = NoFrame]
    /\ hist' = [hist EXCEPT ![e] = Returned(@, frame[e][k])]
    /\ UNCHANGED <<wallets, transactions, diskWallets, diskTxns, walletsTorn, up,
                   failover_mode, is_primary_alive, request, issued>>

\* One step of the engine call that worker k of replica e runs; each write
\* to disk has the outcome f, and the log's save in the except branch g.
EngineStep(e, k, f, g) ==
    \/ DepositEntry(e, k)
    \/ WithdrawEntry(e, k)
    \/ RejectAmount(e, k, f)
    \/ RejectInsufficient(e, k, f, g)
    \/ WriteAheadLog(e, k, f, g)
    \/ Execute(e, k)
    \/ PersistWallets(e, k, f, g)
    \/ Commit(e, k, f, g)
    \/ GetBalance(e, k, f)

Crash(e) ==
    /\ \E torn \in BOOLEAN : CrashReplica(e, torn)
    /\ UNCHANGED <<failover_mode, is_primary_alive, request, issued>>

Start(e) ==
    /\ StartReplica(e) \/ StartReplicaRecover(e)
    /\ UNCHANGED <<failover_mode, is_primary_alive, request, issued>>

\* The engine alone, every call run to its return before the next, no
\* crash and no failing write.
Next ==
    \/ \E op \in {"DEPOSIT", "WITHDRAW"}, a \in AccountIds, x \in Amounts, t \in TxnIds :
            Call(Lone, 1, op, a, x, t)
    \/ \E a \in AccountIds : CallGetBalance(Lone, 1, a)
    \/ EngineStep(Lone, 1, "ok", "ok")
    \/ Respond(Lone, 1)

Spec == Init /\ [][Next]_vars

\* The account of the specifications with faults and with two replicas.
OneAccount == {1}

\* The engine alone, with writes that fail, crashes and restarts.
NextFaulty ==
    \/ \E op \in {"DEPOSIT", "WITHDRAW"}, a \in OneAccount, x \in Amounts, t \in TxnIds :
            Call(Lone, 1, op, a, x, t)
    \/ \E a \in OneAccount : CallGetBalance(Lone, 1, a)
    \/ \E f, g \in DiskOutcomes : EngineStep(Lone, 1, f, g)
    \/ Respond(Lone, 1)
    \/ Crash(Lone)
    \/ Start(Lone)

SpecFaulty == Init /\ [][NextFaulty]_vars

(* ------------- properties of the Ledger Engine on its own -------------- *)

\* The call that the engine runs, and what the history holds for it.
Cur == frame[Lone][1]

Mutating(fr) == fr.pc = "done" /\ fr.op \in {"DEPOSIT", "WITHDRAW"}

FirstCall(fr) == hist[Lone].firstRet[fr.transaction_id] = None

Delta(fr) == IF fr.op = "DEPOSIT" THEN fr.amount ELSE 0 - fr.amount

Succeeded(fr) == fr.result[1].success = Some(TRUE)

\* Since the call fr began, the balance of its account changed by d and no
\* other balance changed.
ChangedBy(fr, d) ==
    \A a \in AccountIds :
        Balance(wallets[Lone], a) =
            Balance(fr.before, a) + (IF a = fr.account_id THEN d ELSE 0)

\* C1 as stated: with no crash and no failing write, every call of
\* deposit(a, x, t) or withdraw(a, x, t) with x > 0 returns the triple the
\* first call returned, and the balance of a is changed exactly once, by x:
\* by the first call, and by no later one.
C1_ChangedExactlyOnce ==
    (Mutating(Cur) /\ Cur.amount > 0) =>
        /\ ~FirstCall(Cur) => Cur.result = hist[Lone].firstRet[Cur.transaction_id]
        /\ ChangedBy(Cur, IF FirstCall(Cur) THEN Delta(Cur) ELSE 0)
        /\ hist[Lone].applied[Cur.transaction_id] = 1

\* C1 as amended: every call returns the triple the first call returned, and
\* the balance of a is changed at most once: by x, by the first call, when
\* that call succeeds (a deposit, or a withdraw that the balance covers), and
\* not at all when the first call is a withdraw rejected for insufficient
\* balance.
C1_ChangedOnceIfAccepted ==
    (Mutating(Cur) /\ Cur.amount > 0) =>
        /\ ~FirstCall(Cur) => Cur.result = hist[Lone].firstRet[Cur.transaction_id]
        /\ FirstCall(Cur) =>
              (Succeeded(Cur) <=> (Cur.op = "DEPOSIT"
                                    \/ Balance(Cur.before, Cur.account_id) >= Cur.amount))
        /\ ChangedBy(Cur, IF FirstCall(Cur) /\ Succeeded(Cur) THEN Delta(Cur) ELSE 0)
        /\ hist[Lone].applied[Cur.transaction_id] = IF Succeeded(Cur) THEN 1 ELSE 0

\* A repeated withdraw whose first call succeeded is about to return.
C1_Witness ==
    Mutating(Cur) /\ Cur.op = "WITHDRAW" /\ ~FirstCall(Cur) /\ Succeeded(Cur)

\* C3: calls run one at a time never leave a negative balance in the wallet
\* store, in memory or on disk, never return a negative balance, and a
\* withdraw of more than the balance does not reduce it.
C3_NonNegative ==
    /\ \A a \in DOMAIN wallets[Lone] : wallets[Lone][a] >= 0
    /\ \A a \in DOMAIN diskWallets[Lone] : diskWallets[Lone][a] >= 0
    /\ Cur.pc = "done" =>
          /\ Cur.result[1].new_balance # None
          /\ Cur.result[1].new_balance[1] >= 0
    /\ (Cur.pc = "done" /\ Cur.op = "WITHDRAW"
            /\ Cur.amount > Balance(Cur.before, Cur.account_id)) =>
          Balance(wallets[Lone], Cur.account_id) >= Balance(Cur.before, Cur.account_id)

\* A withdraw of more than a positive balance is about to return.
C3_Witness ==
    /\ Cur.pc = "done" /\ Cur.op = "WITHDRAW"
    /\ Balance(Cur.before, Cur.account_id) > 0
    /\ Cur.amount > Balance(Cur.before, Cur.account_id)

\* The record of t, in memory and on disk, is COMMITTED with success = False
\* and the triple res.
RecordedRejection(t, res) ==
    \A txns \in {transactions[Lone], diskTxns[Lone]} :
        /\ t \in DOMAIN txns
        /\ txns[t].status = "COMMITTED"
        /\ txns[t].success = Some(FALSE)
        /\ GetCachedResult(txns, t) = res

\* C8: a call with amount <= 0 returns (False, "Amount must be positive", 0),
\* a first withdraw of more than the balance returns (False, "Insufficient
\* balance", the balance); each leaves a COMMITTED record with success =
\* False under its transaction id, no record at all (so no PENDING one)
\* before that, and every balance as it was.
C8_RejectionsCommitted ==
    /\ Cur.pc \in {"reject", "insufficient"} =>
          /\ Cur.transaction_id \notin DOMAIN transactions[Lone]
          /\ Cur.transaction_id \notin DOMAIN diskTxns[Lone]
    /\ (Mutating(Cur) /\ Cur.amount <= 0) =>
          /\ Cur.result[1] = AmountMustBePositive
          /\ RecordedRejection(Cur.transaction_id, AmountMustBePositive)
          /\ ChangedBy(Cur, 0)
    /\ (Mutating(Cur) /\ Cur.op = "WITHDRAW" /\ Cur.amount > 0 /\ FirstCall(Cur)
            /\ Cur.amount > Balance(Cur.before, Cur.account_id)) =>
          /\ Cur.result[1] = Triple(Some(FALSE), Some("Insufficient balance"),
                                    Some(Balance(Cur.before, Cur.account_id)))
          /\ RecordedRejection(Cur.transaction_id, Cur.result[1])
          /\ ChangedBy(Cur, 0)

\* A first withdraw of more than a positive balance is about to return.
C8_Witness ==
    /\ Mutating(Cur) /\ Cur.op = "WITHDRAW" /\ FirstCall(Cur)
    /\ Balance(Cur.before, Cur.account_id) > 0
    /\ Cur.amount > Balance(Cur.before, Cur.account_id)

\* The first call with the transaction id of fr was rejected for
\* insufficient balance, and the balance now covers the amount.
RetryOfRejectedWithdraw(fr) ==
    /\ Mutating(fr) /\ fr.op = "WITHDRAW" /\ ~FirstCall(fr)
    /\ hist[Lone].firstRet[fr.transaction_id][1].message = Some("Insufficient balance")
    /\ Balance(fr.before, fr.account_id) >= fr.amount

\* C9: a withdraw rejected for insufficient balance and called again with
\* its transaction id, after deposits that cover it, returns the rejection
\* of the first call and changes no balance.
C9_RejectionCached ==
    RetryOfRejectedWithdraw(Cur) =>
        /\ Cur.result = hist[Lone].firstRet[Cur.transaction_id]
        /\ ~Succeeded(Cur)
        /\ ChangedBy(Cur, 0)

C9_Witness == RetryOfRejectedWithdraw(Cur)

(* -------- properties of the engine under failing writes and crashes ---- *)

\* C2 as stated: a call of deposit or withdraw with a transaction id that an
\* earlier call returned a triple for returns that same triple, whatever the
\* earlier outcome was: success, rejection, or a failure that rolled the
\* record back.
C2_SameTripleOnRepeat ==
    (Mutating(Cur) /\ ~Cur.result[1].raised /\ ~FirstCall(Cur)) =>
        Cur.result = hist[Lone].firstRet[Cur.transaction_id]

\* C4 as stated: after a crash between the PENDING write and the COMMITTED
\* write of a call with transaction id t and a restart that ran the
\* recovery, a call with t reports success, and the balance holds the
\* effect of t exactly once.
C4_RetryAfterCrashApplies ==
    (Mutating(Cur) /\ hist[Lone].crashedMid[Cur.transaction_id] /\ hist[Lone].recovered) =>
        /\ Succeeded(Cur)
        /\ hist[Lone].applied[Cur.transaction_id] = 1

\* The log txns holds t as a COMMITTED record of a successful operation.
CommittedIn(txns, t) ==
    /\ t \in DOMAIN txns
    /\ txns[t].status = "COMMITTED"
    /\ txns[t].success = Some(TRUE)

Primary == "primary"

Backup == "backup"

\* The amounts of the calls through the writer, and the balance they stop at.
MaxPairAmount == 1

MaxPairBalance == 2

PairAmounts == 0..MaxPairAmount

\* TransactionResponse as the Replication Client reads it: a field that the
\* servicer was handed None for stays unset and reads as its type's default.
OnTheWire(res) ==
    [success     |-> IF res.success = None THEN FALSE ELSE res.success[1],
     message     |-> IF res.message = None THEN "" ELSE res.message[1],
     new_balance |-> IF res.new_balance = None THEN 0 ELSE res.new_balance[1]]

\* A writer that takes every answer of the backup for a success.
BackupNeverRefused(resp) == FALSE

\* `if not backup_success`
BackupRefused(resp) == ~resp.success

BackupError(m) == Triple(Some(FALSE), Some("Backup error: " \o m), Some(0))

\* The except branch of the writer; why stands for str(e).
TransactionFailed(why) == Triple(Some(FALSE), Some("Transaction failed: " \o why), Some(0))

\* The except branch of the writer's get_balance: (False, 0.0, str(e)).
GetBalanceFailed(why) == Triple(Some(FALSE), Some(why), Some(0))

\* A call of PrimaryWalletService.deposit / withdraw / get_balance.  skipped:
\* the call read failover_mode as true; backup_response: what the backup
\* answered; before: the primary's stores and files as the call found them
\* (read by the properties only).
NewRequest(pc, op, a, x, t) ==
    [pc |-> pc, op |-> op, account_id |-> a, amount |-> x, transaction_id |-> t,
     result |-> None, skipped |-> failover_mode, backup_response |-> None,
     before |-> <<wallets[Primary], transactions[Primary],
                  diskWallets[Primary], diskTxns[Primary]>>]

\* PrimaryWalletService.deposit / withdraw, up to the first suspension: the
\* flag is read; when it is false the request goes to the backup (and the
\* stub raises when the backup is not there); when it is true the local
\* engine is called at once.
WriterCall(op, a, x, t) ==
    /\ up[Primary] /\ request = NoFrame
    /\ frame[Primary][1] = NoFrame /\ frame[Backup][1] = NoFrame
    /\ op = "DEPOSIT" => \A e \in Replicas : Balance(wallets[e], a) + x <= MaxPairBalance
    /\ Issue(op, a, x, t)
    /\ IF failover_mode
       THEN /\ request' = NewRequest("local", op, a, x, t)
            /\ frame' = [frame EXCEPT ![Primary][1] = NewFrame(op, a, x, t, wallets[Primary])]
       ELSE IF up[Backup]
       THEN /\ request' = NewRequest("rpc", op, a, x, t)
            /\ frame' = [frame EXCEPT ![Backup][1] = NewFrame(op, a, x, t, wallets[Backup])]
       ELSE /\ request' = Return(NewRequest("rpc", op, a, x, t), TransactionFailed("UNAVAILABLE"))
            /\ UNCHANGED frame
    /\ UNCHANGED <<wallets, transactions, diskWallets, diskTxns, walletsTorn, up,
                   failover_mode, is_primary_alive, hist>>

\* PrimaryWalletService.get_balance: the local engine alone.
WriterGetBalance(a) ==
    /\ up[Primary] /\ request = NoFrame /\ frame[Primary][1] = NoFrame
    /\ request' = NewRequest("local", "GET_BALANCE", a, 0, 0)
    /\ frame' = [frame EXCEPT ![Primary][1] = NewFrame("GET_BALANCE", a, 0, 0, wallets[Primary])]
    /\ UNCHANGED <<wallets, transactions, diskWallets, diskTxns, walletsTorn, up,
                   failover_mode, is_primary_alive, issued, hist>>

\* WalletBackupServicer.deposit / withdraw answers, and the writer goes on:
\* an exception in the servicer fails the RPC, a refusal ends the call with
\* "Backup error", anything else is followed by the call of the local engine.
BackupAnswer ==
    /\ request.pc = "rpc" /\ At(Backup, 1, "done") /\ up[Primary]
    /\ LET fr == frame[Backup][1]
           resp == OnTheWire(fr.result[1])
           answered == [request EXCEPT !.backup_response = Some(resp)]
       IN  IF fr.result[1].raised
           THEN /\ request' = Return(request, TransactionFailed("UNKNOWN"))
                /\ frame' = [frame EXCEPT ![Backup][1] = NoFrame]
           ELSE IF BackupRefused(resp)
           THEN /\ request' = Return(answered, BackupError(resp.message))
                /\ frame' = [frame EXCEPT ![Backup][1] = NoFrame]
           ELSE /\ request' = [answered EXCEPT !.pc = "local"]
                /\ frame' = [frame EXCEPT ![Backup][1] = NoFrame,
                                          ![Primary][1] = NewFrame(request.op, request.account_id,
                                                request.amount, request.transaction_id, wallets[Primary])]
    /\ UNCHANGED <<wallets, transactions, diskWallets, diskTxns, walletsTorn, up,
                   failover_mode, is_primary_alive, issued, hist>>

\* The backup went down with the request in flight: the stub raises.
BackupLost ==
    /\ request.pc = "rpc" /\ ~up[Backup] /\ up[Primary]
    /\ request' = Return(request, TransactionFailed("UNAVAILABLE"))
    /\ UNCHANGED <<wallets, transactions, diskWallets, diskTxns, walletsTorn, up,
                   frame, failover_mode, is_primary_alive, issued, hist>>

\* The local engine returns its triple, which the writer returns as it is;
\* an exception that left the engine ends in the writer's except branch.
LocalReturn ==
    /\ request.pc = "local" /\ At(Primary, 1, "done")
    /\ LET res == frame[Primary][1].result[1]
       IN  request' = Return(request,
                IF ~res.raised THEN res
                ELSE IF request.op = "GET_BALANCE" THEN GetBalanceFailed("OSError")
                ELSE TransactionFailed("OSError"))
    /\ frame' = [frame EXCEPT ![Primary][1] = NoFrame]
    /\ LET fr == frame[Primary][1]
           h == Returned(hist[Primary], fr)
       IN  hist' = [hist EXCEPT ![Primary] =
                        IF h = hist[Primary] THEN h
                        ELSE [h EXCEPT !.inFailover[fr.transaction_id] = request.skipped]]
    /\ UNCHANGED <<wallets, transactions, diskWallets, diskTxns, walletsTorn, up,
                   failover_mode, is_primary_alive, issued>>

\* The caller has the writer's triple.
WriterReturn ==
    /\ request.pc = "done"
    /\ request' = NoFrame
    /\ UNCHANGED <<wallets, transactions, diskWallets, diskTxns, walletsTorn, up,
                   frame, failover_mode, is_primary_alive, issued, hist>>

\* A monitor whose failed probe raises failover_mode and leaves
\* is_primary_alive as it was.
AliveFlagStale(reachable) ==
    /\ up["primary"]
    /\ is_primary_alive' = (is_primary_alive \/ reachable)
    /\ failover_mode' = ~reachable
    /\ UNCHANGED <<wallets, transactions, diskWallets, diskTxns, walletsTorn, up,
                   frame, request, issued, hist>>

\* A monitor that a successful probe does not bring back from failover.
StickyFailover(reachable) ==
    /\ up["primary"]
    /\ is_primary_alive' = reachable
    /\ failover_mode' = (failover_mode \/ ~reachable)
    /\ UNCHANGED <<wallets, transactions, diskWallets, diskTxns, walletsTorn, up,
                   frame, request, issued, hist>>

\* One round of FailoverManager.check_primary_health; reachable: the probed
\* endpoint became ready within the timeout.  The endpoint is
\* localhost:primary_grpc_port (50051, the port start_grpc_server listens
\* on); backup_host and backup_port are stored and not read, so the result
\* does not depend on the backup.
CheckPrimaryHealth(reachable) ==
    /\ up[Primary]
    /\ is_primary_alive' = reachable
    /\ failover_mode' = ~reachable
    /\ UNCHANGED <<wallets, transactions, diskWallets, diskTxns, walletsTorn, up,
                   frame, request, issued, hist>>

\* backup_server.serve: WalletBackupServicer.__init__ loads the two files.
BackupServe ==
    /\ StartReplica(Backup)
    /\ UNCHANGED <<failover_mode, is_primary_alive, request, issued>>

\* The backup's process is killed.
BackupCrash ==
    /\ CrashReplica(Backup, FALSE)
    /\ UNCHANGED <<failover_mode, is_primary_alive, request, issued>>

\* The primary with its Replicated Writer, the backup and the monitor: one
\* writer call at a time, writes that fail on either replica (the save of a
\* rollback goes through), and a backup that goes down and comes back.
NextPair ==
    \/ \E op \in {"DEPOSIT", "WITHDRAW"}, a \in OneAccount, x \in PairAmounts, t \in TxnIds :
            WriterCall(op, a, x, t)
    \/ \E a \in OneAccount : WriterGetBalance(a)
    \/ \E e \in Replicas, f \in DiskOutcomes : EngineStep(e, 1, f, "ok")
    \/ BackupAnswer
    \/ BackupLost
    \/ LocalReturn
    \/ WriterReturn
    \/ \E reachable \in BOOLEAN : CheckPrimaryHealth(reachable)
    \/ BackupCrash
    \/ BackupServe

SpecPair == Init /\ [][NextPair]_vars

(* ----------------------- properties of the pair ------------------------ *)

\* The log a replica's engine holds: in memory, or in its file while the
\* process is down; and the balance it holds for account a.
Log(e) == IF up[e] THEN transactions[e] ELSE diskTxns[e]

BalanceAt(e, a) == Balance(IF up[e] THEN wallets[e] ELSE diskWallets[e], a)

\* A deposit or withdraw through the writer is about to return success.
Acked ==
    /\ request.pc = "done" /\ request.op \in {"DEPOSIT", "WITHDRAW"}
    /\ request.result[1].success = Some(TRUE)

\* The local engine commits t and returns success in this step.
PrimaryCommits(t) ==
    /\ request.pc = "local" /\ request.transaction_id = t
    /\ frame[Primary][1].pc = "commit"
    /\ frame'[Primary][1].pc = "done"
    /\ frame'[Primary][1].result[1].success = Some(TRUE)

\* C5 as stated: when a deposit or withdraw through the writer returns
\* success, the backup's engine holds its transaction id as a COMMITTED
\* record of a success, and it held it already when the primary's engine
\* committed.
C5_BackupCommitsFirst ==
    /\ [](Acked => CommittedIn(Log(Backup), request.transaction_id))
    /\ [][\A t \in TxnIds : PrimaryCommits(t) => CommittedIn(Log(Backup), t)]_vars

\* C6 as stated: when a deposit or withdraw on account a through the writer
\* returns success, the backup's balance of a equals the primary's.
C6_BalancesAgree ==
    Acked => BalanceAt(Backup, request.account_id) = BalanceAt(Primary, request.account_id)

\* The writer read failover_mode as false and the backup answered fr's
\* request with success = false.
Refused(fr) ==
    /\ fr.pc = "done" /\ ~fr.skipped
    /\ fr.backup_response # None
    /\ ~fr.backup_response[1].success

\* C7: with failover_mode false and an answer (false, m, _) of the backup,
\* the writer returns (False, "Backup error: " + m, 0); the local engine is
\* not called, and the primary's wallet store, log and files are as the call
\* found them.
C7_RefusalLeavesPrimary ==
    /\ request.pc = "rpc" => frame[Primary][1] = NoFrame
    /\ Refused(request) =>
          /\ request.result[1] =
                Triple(Some(FALSE),
                       Some("Backup error: " \o request.backup_response[1].message),
                       Some(0))
          /\ frame[Primary][1] = NoFrame
          /\ request.before = <<wallets[Primary], transactions[Primary],
                                diskWallets[Primary], diskTxns[Primary]>>

\* The backup refused a withdraw for insufficient balance while the primary
\* holds a balance that covers it.
C7_Witness ==
    /\ Refused(request)
    /\ request.backup_response[1].message = "Insufficient balance"
    /\ Balance(wallets[Primary], request.account_id) >= request.amount

(* ------------------ properties of restart and recovery ----------------- *)

\* The log file of replica e shows t as PENDING.
PendingOnDisk(e, t) == t \in DOMAIN diskTxns[e] /\ diskTxns[e][t].status = "PENDING"

\* C11 as stated: when the process starts with recovery and the log file
\* shows t as PENDING, the balances it loads do not hold the effect of t, and
\* the recovery leaves the loaded balances as the wallet file has them.
C11_NoGhostEffect ==
    [][\A t \in TxnIds :
          (~up[Lone] /\ up'[Lone] /\ hist'[Lone].recovered /\ PendingOnDisk(Lone, t)) =>
              /\ hist'[Lone].applied[t] = 0
              /\ wallets'[Lone] = diskWallets[Lone]
              /\ diskWallets'[Lone] = diskWallets[Lone]]_vars

\* C12 as stated: when a replica's process starts, no record of the log it
\* holds in memory is PENDING, so that no request served after the start
\* sees a PENDING record.
C12_NoPendingAfterRestart ==
    [][\A e \in Replicas :
          (~up[e] /\ up'[e]) =>
              \A t \in DOMAIN transactions'[e] : transactions'[e][t].status # "PENDING"]_vars

(* ------------------- properties of the writer's modes ------------------ *)

\* The engine call of the primary, made for the writer call in progress.
Local == frame[Primary][1]

\* The writer call in progress is a deposit or withdraw that read
\* failover_mode as true.
InFailover ==
    /\ request.pc \in {"rpc", "local", "done"}
    /\ request.op \in {"DEPOSIT", "WITHDRAW"}
    /\ request.skipped

\* The local engine has returned a triple to a writer call in failover mode.
FailoverEngineReturn ==
    /\ InFailover /\ request.pc = "local"
    /\ Local.pc = "done" /\ ~Local.result[1].raised

\* That call repeats a transaction id whose first call was in failover mode.
FailoverRepeat ==
    /\ FailoverEngineReturn
    /\ hist[Primary].firstRet[Local.transaction_id] # None
    /\ hist[Primary].inFailover[Local.transaction_id]

\* In failover mode no call is made to the backup, the local engine is
\* called, it succeeds only under the conditions of an engine on its own, and
\* the writer returns its triple as it is.
FailoverSkipsBackup ==
    /\ [](InFailover =>
            /\ request.pc # "rpc"
            /\ request.backup_response = None
            /\ frame[Backup][1] = NoFrame
            /\ request.pc = "local" => Local.transaction_id = request.transaction_id)
    /\ [](FailoverEngineReturn /\ Succeeded(Local) =>
            /\ Local.amount > 0
            /\ (Local.op = "WITHDRAW" /\ hist[Primary].firstRet[Local.transaction_id] = None)
                  => Balance(Local.before, Local.account_id) >= Local.amount)
    /\ [][(FailoverEngineReturn /\ request'.pc = "done") =>
              request'.result = Local.result]_vars

\* A repeat in failover mode returns the triple of the first call and
\* changes no balance.
FailoverRepeatsSame ==
    [](FailoverRepeat =>
          /\ Local.result = hist[Primary].firstRet[Local.transaction_id]
          /\ wallets[Primary] = Local.before)

\* C13 as stated: a deposit or withdraw that reaches the writer in failover
\* mode makes no call to the backup and returns what the primary's engine
\* returns, which succeeds under the conditions of an engine on its own; a
\* repeat with the same transaction id returns the same triple and changes
\* no balance again.
C13_FailoverNeutral == FailoverSkipsBackup /\ FailoverRepeatsSame

(* -------------------- properties of the failover monitor --------------- *)

\* C14: the monitor starts in HEALTHY (failover_mode false); after a failed
\* probe it is in FAILOVER and after a successful probe in HEALTHY, whatever
\* state the probe found (failover_mode is the negation of the last probe's
\* result, which is_primary_alive holds); and a step that changes
\* failover_mode is a probe: it changes nothing else but is_primary_alive.
C14_MonitorStates ==
    /\ ~failover_mode
    /\ [](failover_mode <=> ~is_primary_alive)
    /\ [][failover_mode' # failover_mode =>
              /\ is_primary_alive' = failover_mode
              /\ UNCHANGED <<wallets, transactions, diskWallets, diskTxns, walletsTorn,
                             up, frame, request, issued, hist>>]_vars

\* The monitor is back in HEALTHY while a writer call that read FAILOVER is
\* in progress.
C14_Witness == ~failover_mode /\ InFailover

\* C15 as stated: after a probe round failover_mode is true exactly when the
\* backup's endpoint is unreachable: a probe that changes the monitor's
\* flags leaves failover_mode true when the backup is down and false when it
\* is up.
C15_TracksBackup ==
    [][(failover_mode' # failover_mode \/ is_primary_alive' # is_primary_alive) =>
            (failover_mode' <=> ~up[Backup])]_vars

(* ------------------ the writer and an RPC that raises ------------------ *)

\* A writer that goes on to the local engine when the deadline passes.
TimeoutDegrades ==
    /\ request.pc = "rpc" /\ up["backup"] /\ up["primary"]
    /\ request' = [request EXCEPT !.pc = "local"]
    /\ frame' = [frame EXCEPT !["primary"][1] =
                    NewFrame(request.op, request.account_id, request.amount,
                             request.transaction_id, wallets["primary"])]
    /\ UNCHANGED <<wallets, transactions, diskWallets, diskTxns, walletsTorn, up,
                   failover_mode, is_primary_alive, issued, hist>>

\* The 5 second deadline of the stub's call passes before the backup has
\* answered: the stub raises, whatever the backup's handler goes on to do.
BackupTimeout ==
    /\ request.pc = "rpc" /\ up[Backup] /\ up[Primary]
    /\ request' = Return(request, TransactionFailed("DEADLINE_EXCEEDED"))
    /\ UNCHANGED <<wallets, transactions, diskWallets, diskTxns, walletsTorn, up,
                   frame, failover_mode, is_primary_alive, issued, hist>>

\* The backup's handler returns for a call that the writer has given up: the
\* response goes nowhere.
BackupDiscard ==
    /\ request.pc # "rpc" /\ At(Backup, 1, "done")
    /\ frame' = [frame EXCEPT ![Backup][1] = NoFrame]
    /\ UNCHANGED <<wallets, transactions, diskWallets, diskTxns, walletsTorn, up,
                   request, failover_mode, is_primary_alive, issued, hist>>

\* The pair with an RPC that can miss its deadline: writes fail on the backup
\* only, and the backup goes down and comes back.
NextRpc ==
    \/ \E op \in {"DEPOSIT", "WITHDRAW"}, a \in OneAccount, x \in PairAmounts, t \in TxnIds :
            WriterCall(op, a, x, t)
    \/ \E a \in OneAccount : WriterGetBalance(a)
    \/ \E f \in DiskOutcomes : EngineStep(Backup, 1, f, "ok")
    \/ EngineStep(Primary, 1, "ok", "ok")
    \/ BackupAnswer
    \/ BackupLost
    \/ BackupTimeout
    \/ BackupDiscard
    \/ LocalReturn
    \/ WriterReturn
    \/ \E reachable \in BOOLEAN : CheckPrimaryHealth(reachable)
    \/ BackupCrash
    \/ BackupServe

SpecRpc == Init /\ [][NextRpc]_vars

\* The writer call fr read failover_mode as false and ended without an
\* answer of the backup: the RPC raised.
RpcRaised(fr) ==
    /\ fr.pc = "done" /\ fr.op \in {"DEPOSIT", "WITHDRAW"}
    /\ ~fr.skipped /\ fr.backup_response = None

\* C16: with failover_mode false and a backup RPC that raises, the writer
\* returns success = False; the local engine is called only after an answer
\* of the backup with success = true, so the primary's wallet store, log and
\* files are as the call found them; and the step that ends the call leaves
\* failover_mode as it is.
C16_RpcFailureReported ==
    /\ [](RpcRaised(request) =>
            /\ request.result[1].success = Some(FALSE)
            /\ frame[Primary][1] = NoFrame
            /\ request.before = <<wallets[Primary], transactions[Primary],
                                  diskWallets[Primary], diskTxns[Primary]>>)
    /\ []((request.pc = "local" /\ request.op # "GET_BALANCE" /\ ~request.skipped) =>
            /\ request.backup_response # None
            /\ request.backup_response[1].success)
    /\ [][(request.pc = "rpc" /\ request'.pc = "done") =>
              failover_mode' = failover_mode]_vars

\* The deadline passed for a deposit that the backup went on to commit.
C16_Witness ==
    /\ RpcRaised(request)
    /\ request.result[1].message = Some("Transaction failed: DEADLINE_EXCEEDED")
    /\ CommittedIn(transactions[Backup], request.transaction_id)

(* -------------------- properties of the read path ---------------------- *)

\* The writer's get_balance is about to return.
BalanceRead == request.pc = "done" /\ request.op = "GET_BALANCE"

\* get_balance through the writer makes no call to the backup, leaves the
\* primary's log alone and every balance the store held, and holds the
\* account afterwards, at zero when it was unknown.
ReadFrame ==
    /\ (request.pc # "idle" /\ request.op = "GET_BALANCE") =>
          /\ request.pc \in {"local", "done"}
          /\ request.backup_response = None
          /\ frame[Backup][1] = NoFrame
    /\ BalanceRead =>
          /\ transactions[Primary] = request.before[2]
          /\ diskTxns[Primary] = request.before[4]
          /\ \A a \in DOMAIN request.before[1] : wallets[Primary][a] = request.before[1][a]
          /\ request.account_id \in DOMAIN wallets[Primary]
          /\ request.account_id \notin DOMAIN request.before[1] =>
                wallets[Primary][request.account_id] = 0

\* The triple (true, balance, "Balance retrieved") of the account's balance.
BalanceRetrieved ==
    Triple(Some(TRUE), Some("Balance retrieved"),
           Some(Balance(wallets[Primary], request.account_id)))

\* C17 as stated: get_balance through the writer is answered by the primary's
\* engine alone, with no change of the log or of an existing balance, creates
\* an unknown account at zero, and returns (true, balance, "Balance
\* retrieved").
C17_ReadReturnsBalance ==
    /\ ReadFrame
    /\ BalanceRead => request.result[1] = BalanceRetrieved

\* C17 as amended: the same, but when the account was unknown and the write
\* of the wallet file fails, the account is held at zero in memory only and
\* the writer returns (false, 0, the error).
C17_ReadReturnsBalanceOrError ==
    /\ ReadFrame
    /\ BalanceRead =>
          \/ request.result[1] = BalanceRetrieved
          \/ /\ request.account_id \notin DOMAIN request.before[1]
             /\ request.result[1] = GetBalanceFailed("OSError")
             /\ diskWallets[Primary] = request.before[3]

\* The balance of an account unknown until now has been read.
C17_Witness ==
    /\ BalanceRead
    /\ request.account_id \notin DOMAIN request.before[1]
    /\ request.result[1] = BalanceRetrieved
    /\ request.account_id \in DOMAIN diskWallets[Primary]

(* --------------------------- the API adapter --------------------------- *)

\* The parameters of PrimaryWalletService.deposit and withdraw after self.
WriterParams == <<"account_id", "amount", "transaction_id">>

\* TransactionRequest: the model has the fields account_id and amount; any
\* other field of the body is dropped.
ParseTransactionRequest(body) == [account_id |-> body.account_id, amount |-> body.amount]

\* The arguments the handlers call primary_service.deposit / withdraw with.
HandlerArgs(req) == <<req.account_id, req.amount>>

\* The answer to an HTTP request: its status and, for 200, the triple.
HttpResponse(op, a, x, t, status, res) ==
    [pc |-> "responded", op |-> op, account_id |-> a, amount |-> x,
     transaction_id |-> t, status |-> status, result |-> res,
     backup_up |-> up[Backup], failover |-> failover_mode]

\* POST /deposit and POST /withdraw with the body (account_id, amount,
\* transaction_id): the body is validated (amount > 0, else 422), and the
\* writer is called with the handler's arguments; a call whose arguments do
\* not match the parameters raises TypeError, which the handler answers 500.
HttpMutate(op, a, x, t) ==
    /\ up[Primary] /\ request = NoFrame
    /\ frame[Primary][1] = NoFrame /\ frame[Backup][1] = NoFrame
    /\ LET body == [account_id |-> a, amount |-> x, transaction_id |-> t]
           req == ParseTransactionRequest(body)
           args == HandlerArgs(req)
       IN  IF ~(req.amount > 0)
           THEN /\ request' = HttpResponse(op, a, x, t, 422, None)
                /\ UNCHANGED <<wallets, transactions, diskWallets, diskTxns, walletsTorn,
                               up, frame, failover_mode, is_primary_alive, issued, hist>>
           ELSE IF Len(args) # Len(WriterParams)
           THEN /\ request' = HttpResponse(op, a, x, t, 500, None)
                /\ UNCHANGED <<wallets, transactions, diskWallets, diskTxns, walletsTorn,
                               up, frame, failover_mode, is_primary_alive, issued, hist>>
           ELSE WriterCall(op, args[1], args[2], args[3])

\* POST /balance: the writer's get_balance is called with the account id.
HttpBalance(a) == WriterGetBalance(a)

\* The writer has returned to the handler: success is answered 200 with the
\* triple, success = false is answered 400.
HttpRespond ==
    /\ request.pc = "done"
    /\ request' = HttpResponse(request.op, request.account_id, request.amount,
                               request.transaction_id,
                               IF request.result[1].success = Some(TRUE) THEN 200 ELSE 400,
                               request.result)
    /\ UNCHANGED <<wallets, transactions, diskWallets, diskTxns, walletsTorn, up,
                   frame, failover_mode, is_primary_alive, issued, hist>>

\* The response has been sent.
HttpClose ==
    /\ request.pc = "responded"
    /\ request' = NoFrame
    /\ UNCHANGED <<wallets, transactions, diskWallets, diskTxns, walletsTorn, up,
                   frame, failover_mode, is_primary_alive, issued, hist>>

\* The primary behind its API adapter, with the backup and the monitor.
NextHttp ==
    \/ \E op \in {"DEPOSIT", "WITHDRAW"}, a \in AccountIds, x \in Amounts, t \in TxnIds :
            HttpMutate(op, a, x, t)
    \/ \E a \in AccountIds : HttpBalance(a)
    \/ \E f \in DiskOutcomes : GetBalance(Primary, 1, f)
    \/ LocalReturn
    \/ HttpRespond
    \/ HttpClose
    \/ \E reachable \in BOOLEAN : CheckPrimaryHealth(reachable)
    \/ BackupCrash
    \/ BackupServe

SpecHttp == Init /\ [][NextHttp]_vars

\* C18 as stated: a deposit or withdraw request with amount > 0 that arrives
\* with the backup up and failover_mode false is answered 200 with a
\* successful triple when it is a deposit, and 200 or 400 with the engine's
\* triple when it is a withdraw: the writer was called with the request's
\* account_id, amount and transaction_id.
C18_ValidRequestAnswered ==
    (request.pc = "responded" /\ request.op \in {"DEPOSIT", "WITHDRAW"}
        /\ request.amount > 0 /\ request.backup_up /\ ~request.failover) =>
            /\ request.status \in {200, 400}
            /\ request.op = "DEPOSIT" => request.status = 200
            /\ request.result # None

(* ------------------ properties of reads after failures ----------------- *)

\* The change of account a's balance that record r stands for when it is a
\* COMMITTED record of a success.
CommittedEffect(r, a) ==
    IF r.status = "COMMITTED" /\ r.success = Some(TRUE) /\ r.account_id = a
    THEN (IF r.operation = "DEPOSIT" THEN r.amount ELSE 0 - r.amount)
    ELSE 0

RECURSIVE NetCommitted(_, _, _)
\* The net effect on account a of the COMMITTED successful records of txns
\* with ids in S.
NetCommitted(txns, a, S) ==
    IF S = {} THEN 0
    ELSE LET t == CHOOSE u \in S : TRUE
         IN  CommittedEffect(txns[t], a) + NetCommitted(txns, a, S \ {t})

\* The call fr returned the failure of the except branch.
FailedPersisting(fr) ==
    /\ Mutating(fr) /\ ~fr.result[1].raised
    /\ fr.result[1] = FailedResult(fr.op)

\* C19 as stated: the balance get_balance returns for an account is the net
\* effect of the account's COMMITTED successful transactions, and a call
\* that returns (False, "Deposit failed: ...", 0) or (False, "Withdraw
\* failed: ...", 0) leaves every balance as the call found it.
C19_ReadsCommittedOnly ==
    /\ (Cur.pc = "done" /\ Cur.op = "GET_BALANCE" /\ ~Cur.result[1].raised) =>
          Cur.result[1].new_balance =
              Some(NetCommitted(transactions[Lone], Cur.account_id, DOMAIN transactions[Lone]))
    /\ FailedPersisting(Cur) => ChangedBy(Cur, 0)

(* ------------- properties of a failed write of the log ----------------- *)

\* The engine alone with writes that fail, in a process that stays up.
NextDisk ==
    \/ \E op \in {"DEPOSIT", "WITHDRAW"}, a \in OneAccount, x \in Amounts, t \in TxnIds :
            Call(Lone, 1, op, a, x, t)
    \/ \E a \in OneAccount : CallGetBalance(Lone, 1, a)
    \/ \E f, g \in DiskOutcomes : EngineStep(Lone, 1, f, g)
    \/ Respond(Lone, 1)

SpecDisk == Init /\ [][NextDisk]_vars

\* The save of the log failed in the commit step of a successful deposit or
\* withdraw: _commit_transaction had filled in the record (success = True)
\* and the except branch marked it ROLLED_BACK.
CommitSaveFailed ==
    \E t \in DOMAIN transactions[Lone] :
        /\ transactions[Lone][t].status = "ROLLED_BACK"
        /\ transactions[Lone][t].success = Some(TRUE)

\* C20 as stated: once the save of the log has failed in a commit step, no
\* step of a later deposit or withdraw changes a balance or the log, in
\* memory or on disk, and none of them returns success.
C20_FatalCommitFailure ==
    [][(CommitSaveFailed /\ Cur.pc # "idle" /\ Cur.op \in {"DEPOSIT", "WITHDRAW"}) =>
          /\ wallets'[Lone] = wallets[Lone]
          /\ transactions'[Lone] = transactions[Lone]
          /\ diskWallets'[Lone] = diskWallets[Lone]
          /\ diskTxns'[Lone] = diskTxns[Lone]
          /\ frame'[Lone][1].pc = "done" => ~Succeeded(frame'[Lone][1])]_vars

(* --------------- properties of a record's life cycle ------------------- *)

\* The record of t in the log txns, or None when the log does not hold t.
RecordOf(txns, t) == IF t \in DOMAIN txns THEN Some(txns[t]) ELSE None

\* The record r holds no result: only the move to COMMITTED writes the
\* three result fields.
NoResult(r) == r.success = None /\ r.message = None /\ r.new_balance = None

\* One call takes the record of a transaction id from old to new along the
\* life cycle: it leaves it as it is; it creates it PENDING, or COMMITTED as
\* a rejection; it takes a PENDING record (one it found, or the one it
\* created) to COMMITTED or to ROLLED_BACK, and then the record has not been
\* COMMITTED and holds no result; a COMMITTED or ROLLED_BACK record stays as
\* it is.
LifeCycleMove(old, new) ==
    \/ new = old
    \/ /\ old = None /\ new # None
       /\ \/ new[1].status = "PENDING" /\ NoResult(new[1])
          \/ new[1].status = "COMMITTED"
          \/ new[1].status = "ROLLED_BACK" /\ NoResult(new[1])
    \/ /\ old # None /\ new # None
       /\ old[1].status = "PENDING"
       /\ \/ new[1].status = "COMMITTED"
          \/ new[1].status = "ROLLED_BACK" /\ NoResult(new[1])

\* C21 as stated: in every step of a running process, and in every write of
\* the log file, the record of a transaction id follows the life cycle:
\* created PENDING, or COMMITTED for a rejection; PENDING to COMMITTED or
\* ROLLED_BACK; a record that is or has been COMMITTED, or is ROLLED_BACK,
\* keeps its status and its result fields.
C21_StatusMonotone ==
    [][\A e \in Replicas, t \in TxnIds :
          /\ (up[e] /\ up'[e]) =>
                LifeCycleMove(RecordOf(transactions[e], t), RecordOf(transactions'[e], t))
          /\ LifeCycleMove(RecordOf(diskTxns[e], t), RecordOf(diskTxns'[e], t))]_vars

(* ------------- the backup's pool of worker threads --------------------- *)

\* The backup's server: every RPC is handed to a free thread of the pool,
\* and the threads run the handlers on the one WalletService with no lock,
\* so the steps of two calls fall in any order.  No write fails and the
\* process stays up.
NextThreads ==
    \/ \E k \in Workers, op \in {"DEPOSIT", "WITHDRAW"}, a \in OneAccount,
          x \in PairAmounts, t \in TxnIds :
            Call(Backup, k, op, a, x, t)
    \/ \E k \in Workers, a \in OneAccount : CallGetBalance(Backup, k, a)
    \/ \E k \in Workers : EngineStep(Backup, k, "ok", "ok")
    \/ \E k \in Workers : Respond(Backup, k)

SpecThreads == Init /\ [][NextThreads]_vars

\* Worker k is between the duplicate check and the return of a deposit or
\* withdraw that the check let through.
PastDuplicateCheck(e, k) ==
    frame[e][k].pc \in {"reject", "insufficient", "wal", "exec", "save", "commit"}

\* C22 as stated: no two workers of the backup are between the duplicate
\* check and the return of the commit at once; the balance change of a
\* transaction id is made once; and no balance is negative.
C22_CallsSerialised ==
    /\ ~(PastDuplicateCheck(Backup, 1) /\ PastDuplicateCheck(Backup, 2))
    /\ \A t \in TxnIds : hist[Backup].applied[t] <= 1
    /\ \A a \in DOMAIN wallets[Backup] : wallets[Backup][a] >= 0

(* ------------- concurrent calls of the Replicated Writer --------------- *)

\* The calls of the writer that are in progress at once: coroutines of the
\* primary's event loop, each with its own RPC to the backup.
Calls == Workers

\* The state of the specification with concurrent writer calls: as Init, with
\* one slot per call in progress.
InitWriters ==
    /\ wallets = [e \in Replicas |-> EmptyDict]
    /\ transactions = [e \in Replicas |-> EmptyDict]
    /\ diskWallets = [e \in Replicas |-> EmptyDict]
    /\ diskTxns = [e \in Replicas |-> EmptyDict]
    /\ walletsTorn = [e \in Replicas |-> FALSE]
    /\ up = [e \in Replicas |-> TRUE]
    /\ frame = [e \in Replicas |-> [k \in Workers |-> NoFrame]]
    /\ failover_mode = FALSE
    /\ is_primary_alive = TRUE
    /\ request = [i \in Calls |-> NoFrame]
    /\ hist = [e \in Replicas |-> NoHistory]
    /\ issued = [t \in TxnIds |-> None]

\* PrimaryWalletService.deposit / withdraw of call i, up to its suspension at
\* `await self.backup_client...`: failover_mode is false, the request goes
\* to the backup, where thread i of the pool takes it.  Every call brings a
\* transaction id of its own.
WriterCallAt(i, op, a, x, t) ==
    /\ request[i] = NoFrame /\ frame[Backup][i] = NoFrame
    /\ ~failover_mode /\ up[Primary] /\ up[Backup]
    /\ issued[t] = None
    /\ op = "DEPOSIT" => \A e \in Replicas : Balance(wallets[e], a) + x <= MaxPairBalance
    /\ Issue(op, a, x, t)
    /\ request' = [request EXCEPT ![i] = NewRequest("rpc", op, a, x, t)]
    /\ frame' = [frame EXCEPT ![Backup][i] = NewFrame(op, a, x, t, wallets[Backup])]
    /\ UNCHANGED <<wallets, transactions, diskWallets, diskTxns, walletsTorn, up,
                   failover_mode, is_primary_alive, hist>>

\* PrimaryWalletService.get_balance of call i: the local engine alone.
WriterGetBalanceAt(i, a) ==
    /\ request[i] = NoFrame /\ frame[Primary][1] = NoFrame /\ up[Primary]
    /\ request' = [request EXCEPT ![i] = NewRequest("local", "GET_BALANCE", a, 0, 0)]
    /\ frame' = [frame EXCEPT ![Primary][1] = NewFrame("GET_BALANCE", a, 0, 0, wallets[Primary])]
    /\ UNCHANGED <<wallets, transactions, diskWallets, diskTxns, walletsTorn, up,
                   failover_mode, is_primary_alive, issued, hist>>

\* The backup's answer to call i arrives and the event loop resumes the
\* call: from here to its return it runs without suspension, so no other
\* call of the writer runs in between (the local engine is free).  A refusal
\* ends the call, anything else is followed by the call of the local engine.
BackupAnswerAt(i) ==
    /\ request[i].pc = "rpc" /\ At(Backup, i, "done")
    /\ frame[Primary][1] = NoFrame
    /\ LET fr == frame[Backup][i]
           resp == OnTheWire(fr.result[1])
           answered == [request[i] EXCEPT !.backup_response = Some(resp)]
       IN  IF fr.result[1].raised
           THEN /\ request' = [request EXCEPT ![i] = Return(request[i], TransactionFailed("UNKNOWN"))]
                /\ frame' = [frame EXCEPT ![Backup][i] = NoFrame]
           ELSE IF BackupRefused(resp)
           THEN /\ request' = [request EXCEPT ![i] = Return(answered, BackupError(resp.message))]
                /\ frame' = [frame EXCEPT ![Backup][i] = NoFrame]
           ELSE /\ request' = [request EXCEPT ![i] = [answered EXCEPT !.pc = "local"]]
                /\ frame' = [frame EXCEPT ![Backup][i] = NoFrame,
                                          ![Primary][1] = NewFrame(request[i].op, request[i].account_id,
                                                request[i].amount, request[i].transaction_id, wallets[Primary])]
    /\ UNCHANGED <<wallets, transactions, diskWallets, diskTxns, walletsTorn, up,
                   failover_mode, is_primary_alive, issued, hist>>

\* The local engine returns its triple to call i, which returns it.
LocalReturnAt(i) ==
    /\ request[i].pc = "local" /\ At(Primary, 1, "done")
    /\ LET res == frame[Primary][1].result[1]
       IN  request' = [request EXCEPT ![i] = Return(request[i],
                IF ~res.raised THEN res
                ELSE IF request[i].op = "GET_BALANCE" THEN GetBalanceFailed("OSError")
                ELSE TransactionFailed("OSError"))]
    /\ frame' = [frame EXCEPT ![Primary][1] = NoFrame]
    /\ hist' = [hist EXCEPT ![Primary] = Returned(@, frame[Primary][1])]
    /\ UNCHANGED <<wallets, transactions, diskWallets, diskTxns, walletsTorn, up,
                   failover_mode, is_primary_alive, issued>>

\* The caller of call i has the writer's triple.
WriterReturnAt(i) ==
    /\ request[i].pc = "done"
    /\ request' = [request EXCEPT ![i] = NoFrame]
    /\ UNCHANGED <<wallets, transactions, diskWallets, diskTxns, walletsTorn, up,
                   frame, failover_mode, is_primary_alive, issued, hist>>

\* Concurrent calls of the writer with failover_mode false: no crash, no RPC
\* that raises, no write that fails.  The backup's threads run their handlers
\* in any order; the primary's engine runs one call at a time.
NextWriters ==
    \/ \E i \in Calls, op \in {"DEPOSIT", "WITHDRAW"}, a \in OneAccount,
          x \in PairAmounts, t \in TxnIds :
            WriterCallAt(i, op, a, x, t)
    \/ \E i \in Calls, a \in OneAccount : WriterGetBalanceAt(i, a)
    \/ \E k \in Workers : EngineStep(Backup, k, "ok", "ok")
    \/ EngineStep(Primary, 1, "ok", "ok")
    \/ \E i \in Calls : BackupAnswerAt(i)
    \/ \E i \in Calls : LocalReturnAt(i)
    \/ \E i \in Calls : WriterReturnAt(i)

SpecWriters == InitWriters /\ [][NextWriters]_vars

\* Every call of the writer has returned and no engine call is running.
AllReturned ==
    /\ \A i \in Calls : request[i] = NoFrame
    /\ \A e \in Replicas, k \in Workers : frame[e][k] = NoFrame

\* C23 as stated: once all the concurrent calls have returned, the two
\* replicas hold equal balances for every account, and every transaction id
\* is a success on both replicas or on neither.
C23_ReplicasConverge ==
    AllReturned =>
        /\ \A a \in OneAccount : Balance(wallets[Primary], a) = Balance(wallets[Backup], a)
        /\ \A t \in TxnIds :
              CommittedIn(transactions[Primary], t) <=> CommittedIn(transactions[Backup], t)

(* --------------- properties of a retry through the writer -------------- *)

\* The writer call in progress repeats a transaction id that the backup
\* holds as a COMMITTED success and that the primary's engine failed to
\* apply: the primary's log held it as ROLLED_BACK when the call began.
RetryAfterPrimaryFailure ==
    /\ request.pc \in {"rpc", "local", "done"}
    /\ request.op \in {"DEPOSIT", "WITHDRAW"}
    /\ ~request.skipped
    /\ request.transaction_id \in DOMAIN request.before[2]
    /\ request.before[2][request.transaction_id].status = "ROLLED_BACK"
    /\ CommittedIn(Log(Backup), request.transaction_id)

\* The retry changes nothing on the backup.
RetryLeavesBackup ==
    [][(RetryAfterPrimaryFailure /\ request.pc = "rpc" /\ up[Backup] /\ up'[Backup]) =>
          /\ wallets'[Backup] = wallets[Backup]
          /\ transactions'[Backup] = transactions[Backup]
          /\ diskWallets'[Backup] = diskWallets[Backup]
          /\ diskTxns'[Backup] = diskTxns[Backup]]_vars

\* The retry is attempted again on the primary: its engine call does not
\* return from the duplicate check.
RetryReattempted ==
    [][(RetryAfterPrimaryFailure /\ request.pc = "local" /\ Local.pc = "entry") =>
          frame'[Primary][1].pc # "done"]_vars

\* After a successful retry the primary's balance, in memory and in the
\* wallet file, includes the transaction exactly once.
RetryAppliesOnce ==
    []((RetryAfterPrimaryFailure /\ Acked) =>
          /\ hist[Primary].applied[request.transaction_id] = 1
          /\ hist[Primary].persisted[request.transaction_id] = 1)

\* C24 as stated: a retry of a transaction that the backup accepted and the
\* primary failed to apply changes nothing on the backup, is attempted again
\* on the primary, and after a successful retry the primary's balance
\* includes the transaction exactly once.
C24_RetryReapplies == RetryLeavesBackup /\ RetryReattempted /\ RetryAppliesOnce

(* ------------- properties of the duplicate check ----------------------- *)

\* The call fr is at its duplicate check and the log holds its transaction
\* id as a PENDING record.
AtPendingDuplicate(fr) ==
    /\ up[Lone] /\ fr.pc = "entry" /\ fr.op \in {"DEPOSIT", "WITHDRAW"}
    /\ fr.transaction_id \in DOMAIN transactions[Lone]
    /\ transactions[Lone][fr.transaction_id].status = "PENDING"

\* C25: a PENDING record holds no result, and a deposit or withdraw whose
\* transaction id is in the log as a PENDING record returns at the duplicate
\* check with the record's triple (None, None, None), and leaves the wallet
\* store, the log and both files as they are.
C25_PendingTakenForDone ==
    /\ [](\A t \in DOMAIN transactions[Lone] :
            transactions[Lone][t].status = "PENDING" => NoResult(transactions[Lone][t]))
    /\ [][(AtPendingDuplicate(Cur) /\ up'[Lone]) =>
            /\ frame'[Lone][1].pc = "done"
            /\ frame'[Lone][1].result = Some(Triple(None, None, None))
            /\ frame'[Lone][1].result =
                  Some(GetCachedResult(transactions[Lone], Cur.transaction_id))
            /\ UNCHANGED <<wallets, transactions, diskWallets, diskTxns>>]_vars

\* A deposit repeated after a crash and a restart without recovery has
\* returned from the duplicate check on its PENDING record.
C25_Witness ==
    /\ Mutating(Cur) /\ Cur.op = "DEPOSIT"
    /\ Cur.result[1] = Triple(None, None, None)
    /\ transactions[Lone][Cur.transaction_id].status = "PENDING"
    /\ hist[Lone].crashedMid[Cur.transaction_id]

(* --------------- properties of the monitor's two flags ----------------- *)

\* C26: in every state that the writer can read (the monitor sets its two
\* flags without a suspension in between), is_primary_alive is the negation
\* of failover_mode: they are never both true and never both false.
C26_FlagsOpposed ==
    /\ ~(is_primary_alive /\ failover_mode)
    /\ is_primary_alive \/ failover_mode

\* A writer call that read failover_mode as false waits for the backup
\* while a failed probe has turned both flags.
C26_Witness ==
    /\ request.pc = "rpc" /\ ~request.skipped
    /\ failover_mode /\ ~is_primary_alive

(* ------------- the pair while the monitor stays HEALTHY ---------------- *)

\* The pair of SpecRpc in the behaviours where no probe fails: failover_mode
\* is false from the start on.  Calls through the writer, answers and
\* refusals of the backup, RPCs that raise (the backup is down, goes down, or
\* misses the deadline), writes that fail on the backup, and a backup that
\* goes down and comes back on its files.
NextHealthy ==
    \/ \E op \in {"DEPOSIT", "WITHDRAW"}, a \in OneAccount, x \in PairAmounts, t \in TxnIds :
            WriterCall(op, a, x, t)
    \/ \E a \in OneAccount : WriterGetBalance(a)
    \/ \E f \in DiskOutcomes : EngineStep(Backup, 1, f, "ok")
    \/ EngineStep(Primary, 1, "ok", "ok")
    \/ BackupAnswer
    \/ BackupLost
    \/ BackupTimeout
    \/ BackupDiscard
    \/ LocalReturn
    \/ WriterReturn
    \/ BackupCrash
    \/ BackupServe

SpecHealthy == Init /\ [][NextHealthy]_vars

\* C27: while failover_mode has never been true, every transaction id in the
\* primary's log is in the backup's log (the one in its memory, or the one
\* in its file while its process is down).
C27_PrimaryLogWithinBackup ==
    /\ ~failover_mode
    /\ \A t \in DOMAIN transactions[Primary] : t \in DOMAIN Log(Backup)

\* The primary's log holds a transaction id, the backup's log holds one more
\* that it refused, and the backup's process is down.
C27_Witness ==
    /\ ~up[Backup]
    /\ DOMAIN transactions[Primary] # {}
    /\ \E t \in DOMAIN diskTxns[Backup] :
          /\ t \notin DOMAIN transactions[Primary]
          /\ diskTxns[Backup][t].success = Some(FALSE)

(* ------------- properties of the balances and the log ------------------ *)

\* No call of the engine is between its begin and its return.
Quiescent == Cur.pc \in {"idle", "done"}

\* C28: on one engine, with no crash and no failing write, whenever no call
\* is running the balance of every account, in memory and in the wallet
\* file, is the sum of the amounts of its COMMITTED successful deposits
\* minus that of its COMMITTED successful withdraws, and no record of the
\* log, in memory or in the file, is PENDING.
C28_BalanceIsNetCommitted ==
    Quiescent =>
        /\ \A a \in AccountIds :
              /\ Balance(wallets[Lone], a) =
                    NetCommitted(transactions[Lone], a, DOMAIN transactions[Lone])
              /\ Balance(diskWallets[Lone], a) = Balance(wallets[Lone], a)
        /\ \A t \in DOMAIN transactions[Lone] : transactions[Lone][t].status # "PENDING"
        /\ diskTxns[Lone] = transactions[Lone]

\* get_balance returns a positive balance left by a deposit and a withdraw
\* that both succeeded.
C28_Witness ==
    /\ Cur.pc = "done" /\ Cur.op = "GET_BALANCE"
    /\ Cur.result[1].new_balance # None /\ Cur.result[1].new_balance[1] > 0
    /\ \E t, u \in DOMAIN transactions[Lone] :
          /\ CommittedEffect(transactions[Lone][t], Cur.account_id) > 0
          /\ CommittedEffect(transactions[Lone][u], Cur.account_id) < 0

=============================================================================
